---- MODULE Spec2Model ----
(***************************************************************************)
(* Model of qutip/core/data/add.pyx: addition and subtraction of CSR and   *)
(* Dense matrices, out := left + scale*right.                              *)
(*                                                                         *)
(* Arrays are C arrays: functions over 0..n-1.  Matrix values are small    *)
(* integers (exact arithmetic stands in for double complex); the magnitude *)
(* of a value is its absolute value.  Every matrix lives in `heap` under   *)
(* an object id, so that "a copy" and "the same object" can be told apart. *)
(***************************************************************************)
EXTENDS Integers, Sequences, FiniteSets, TLC

VARIABLES
    entry,      \* the entry point that was called
    pc,         \* position of the call
    heap,       \* object id -> matrix object (CSR or Dense)
    left,       \* object id of the `left` argument
    right,      \* object id of the `right` argument
    scale,      \* the `scale` argument of add_csr / add_dense / iadd_dense
    settings,   \* settings.core: auto_tidyup, auto_tidyup_atol
    tol,        \* the merge kernel's local `tol`
    acc,        \* the Accumulator of add_csr
    loc,        \* the other C locals of the running function
    out,        \* object id of `out` (0: none yet)
    ret,        \* object id returned (0: nothing returned)
    err,        \* the exception raised (<<>>: none)
    log,        \* history: accumulator operations and row_index writes, in order
    rowlog,     \* history: the scatters of the current row
    aux         \* history: path taken, gather bookkeeping, buffer accesses

vars == <<entry, pc, heap, left, right, scale, settings, tol, acc, loc, out,
          ret, err, log, rowlog, aux>>

----------------------------------------------------------------------------
(* Bounds of the checked inputs. *)

\* Largest number of stored entries of a CSR operand.
MaxNnz == 2

\* Largest number of non-zero elements of a Dense operand.
MaxDenseNnz == 1

\* Shapes of the CSR operands.
CsrShapes == {<<1, 2>>, <<2, 1>>, <<2, 2>>}

\* Shapes of the Dense operands.
DenseShapes == {<<2, 2>>, <<2, 3>>, <<3, 2>>}

\* Stored values of the CSR operands.
Vals == {-1, 1}

\* Non-zero element values of the Dense operands.
DenseVals == {1}

\* Values of the `scale` argument (sub_csr and sub_dense pass -1 themselves).
Scales == {0, 1, 2}

\* Values of settings.core: <<auto_tidyup, auto_tidyup_atol>>.
Settings == {<<TRUE, 0>>, <<TRUE, 1>>, <<FALSE, 1>>}

\* What an uninitialised C double may hold when it is read.
UninitDouble == {-1, 0, 2}

\* Content of a buffer slot that was allocated and never written: no offset,
\* no column, and never read as a value.
Uninit == -7

----------------------------------------------------------------------------
(* Arithmetic helpers. *)

Abs(x) == IF x < 0 THEN -x ELSE x

\* The elements of a finite set of integers in ascending order.
RECURSIVE SortedSeq(_)
SortedSeq(S) ==
    IF S = {} THEN <<>>
    ELSE LET m == CHOOSE x \in S : \A y \in S : x <= y
         IN  <<m>> \o SortedSeq(S \ {m})

\* Subsets of S with at most n elements.
SubsetsUpTo(S, n) == {T \in SUBSET S : Cardinality(T) <= n}

----------------------------------------------------------------------------
(* CSR and Dense objects. *)

\* nnz of a CSR matrix: row_index[rows].
csr_nnz(m) == m.row_index[m.shape[1]]

\* The CSR matrix of the given shape whose stored entries are f, a function
\* from positions (encoded r*cols + c) to values.
CsrFromEntries(shape, f) ==
    LET cols == shape[2]
        ps   == SortedSeq(DOMAIN f)
    IN  [kind      |-> "csr",
         shape     |-> shape,
         cap       |-> Len(ps),
         row_index |-> [r \in 0 .. shape[1] |->
                           Cardinality({p \in DOMAIN f : p < r * cols})],
         col_index |-> [i \in 0 .. Len(ps) - 1 |-> ps[i + 1] % cols],
         data      |-> [i \in 0 .. Len(ps) - 1 |-> f[ps[i + 1]]]]

\* Every valid CSR matrix of the shape with at most MaxNnz stored entries.
AllCsr(shape) ==
    LET P == 0 .. shape[1] * shape[2] - 1
    IN  UNION {{CsrFromEntries(shape, f) : f \in [S -> Vals]} :
               S \in SubsetsUpTo(P, MaxNnz)}

\* Every Dense matrix of the shape with at most MaxDenseNnz non-zero elements, in
\* both layouts.
AllDense(shape) ==
    LET P == 0 .. shape[1] * shape[2] - 1
    IN  UNION {{[kind    |-> "dense",
                 shape   |-> shape,
                 fortran |-> fo,
                 data    |-> [i \in P |-> IF i \in S THEN f[i] ELSE 0]] :
                f \in [S -> DenseVals], fo \in BOOLEAN} :
               S \in SubsetsUpTo(P, MaxDenseNnz)}

\* A read of a C array; a read outside the allocation yields 0 here and is
\* recorded by the caller as out of bounds.
Rd(arr, i) == IF i \in DOMAIN arr THEN arr[i] ELSE 0

\* The stored entries of a CSR matrix: <<row, col, value>> for every slot of
\* every row's segment.
Stored(m) ==
    UNION {{<<r, Rd(m.col_index, i), Rd(m.data, i)>> :
              i \in m.row_index[r] .. m.row_index[r + 1] - 1} :
           r \in 0 .. m.shape[1] - 1}

\* What a CSR matrix holds: its row offsets and the meaningful prefix of its
\* column and value buffers (the slack above row_index[rows] is left out).
Content(m) ==
    [row_index |-> m.row_index,
     col_index |-> [i \in 0 .. csr_nnz(m) - 1 |-> Rd(m.col_index, i)],
     data      |-> [i \in 0 .. csr_nnz(m) - 1 |-> Rd(m.data, i)]]

\* Dense expansion of a CSR matrix: position (r, c) -> value.
CsrToDense(m) ==
    [p \in (0 .. m.shape[1] - 1) \X (0 .. m.shape[2] - 1) |->
        IF \E e \in Stored(m) : e[1] = p[1] /\ e[2] = p[2]
        THEN (CHOOSE e \in Stored(m) : e[1] = p[1] /\ e[2] = p[2])[3]
        ELSE 0]

\* Buffer offset of logical element (r, c) of a Dense matrix.
DenseOffset(shape, fortran, r, c) ==
    IF fortran THEN r + c * shape[1] ELSE r * shape[2] + c

\* Logical element (r, c) of a Dense matrix.
DenseAt(m, r, c) == m.data[DenseOffset(m.shape, m.fortran, r, c)]

\* csr.empty(rows, cols, size): buffers allocated, nothing written.
csr_empty(rows, cols, size) ==
    [kind      |-> "csr",
     shape     |-> <<rows, cols>>,
     cap       |-> size,
     row_index |-> [r \in 0 .. rows |-> Uninit],
     col_index |-> [i \in 0 .. size - 1 |-> Uninit],
     data      |-> [i \in 0 .. size - 1 |-> Uninit]]

\* CSR.copy() and Dense.copy(): an independent object with the same content.
copy(m) == m

----------------------------------------------------------------------------
(* The Accumulator of qutip.core.data.csr. *)

NoAcc == [state |-> "none", values |-> <<>>, nz_inds |-> <<>>]

acc_alloc(ncols) ==
    [state   |-> "live",
     values  |-> [c \in 0 .. ncols - 1 |-> 0],
     nz_inds |-> <<>>]

\* Adds value at column col and records the column when it is first touched.
acc_scatter(a, value, col) ==
    IF col \notin DOMAIN a.values THEN a
    ELSE [a EXCEPT !.values[col] = @ + value,
                   !.nz_inds = IF \E i \in 1 .. Len(@) : @[i] = col
                               THEN @ ELSE Append(@, col)]

\* Whether gather omits an accumulated value.
acc_drops(value, tolerance) == Abs(value) <= tolerance

\* The <<column, value>> pairs gather writes: the touched columns in
\* ascending order, without those the tolerance drops.
acc_gather(a, tolerance) ==
    LET cs == SortedSeq({a.nz_inds[i] : i \in 1 .. Len(a.nz_inds)})
    IN  SelectSeq([i \in 1 .. Len(cs) |-> <<cs[i], a.values[cs[i]]>>],
                  LAMBDA e : ~acc_drops(e[2], tolerance))

acc_reset(a) ==
    [a EXCEPT !.values = [c \in DOMAIN @ |-> 0], !.nz_inds = <<>>]

acc_free(a) == [a EXCEPT !.state = "freed"]

----------------------------------------------------------------------------
(* Initial states: one call of one entry point on operands from the bounded  *)
(* sets.  iadd_dense may be handed the same object twice.                    *)

NoLoc ==
    [variant |-> "", row |-> 0, ptr_a |-> 0, ptr_b |-> 0, ptr_a_max |-> 0,
     ptr_b_max |-> 0, col_a |-> 0, col_b |-> 0, nnz |-> 0,
     size |-> 0, dim1 |-> 0, dim2 |-> 0, idx |-> 0]

NoAux ==
    [path |-> "none", touched |-> 0, written |-> 0, dropped |-> 0,
     before |-> 0, overrun |-> FALSE, oob |-> FALSE, access |-> {},
     left0 |-> <<>>, right0 |-> <<>>]

CsrEntries == {"add_csr", "sub_csr"}
DenseEntries == {"add_dense", "sub_dense", "iadd_dense"}

\* The scale values an entry point can be called with (sub_* take none: the
\* default 1 stands until they pass -1 on).
ScalesOf(e) == IF e \in {"sub_csr", "sub_dense"} THEN {1} ELSE Scales

InitCommon ==
    /\ pc = entry
    /\ tol = 0
    /\ acc = NoAcc
    /\ loc = NoLoc
    /\ out = 0
    /\ ret = 0
    /\ err = <<>>
    /\ log = <<>>
    /\ rowlog = <<>>
    /\ aux = [NoAux EXCEPT !.left0 = heap[left], !.right0 = heap[right]]

InitCsr ==
    /\ entry \in CsrEntries
    /\ \E sl \in CsrShapes, sr \in CsrShapes :
         \E l \in AllCsr(sl), r \in AllCsr(sr) :
            heap = (1 :> l) @@ (2 :> r)
    /\ left = 1
    /\ right = 2
    /\ scale \in ScalesOf(entry)
    /\ \E s \in Settings :
         settings = [auto_tidyup |-> s[1], auto_tidyup_atol |-> s[2]]
    /\ InitCommon

InitDense ==
    /\ entry \in DenseEntries
    /\ \E sl \in DenseShapes : \E l \in AllDense(sl) :
         \/ /\ \E sr \in DenseShapes : \E r \in AllDense(sr) :
                  heap = (1 :> l) @@ (2 :> r)
            /\ right = 2
         \/ /\ entry = "iadd_dense"
            /\ heap = (1 :> l)
            /\ right = 1
    /\ left = 1
    /\ scale \in ScalesOf(entry)
    /\ settings = [auto_tidyup |-> TRUE, auto_tidyup_atol |-> 0]
    /\ InitCommon

Init == InitCsr \/ InitDense

----------------------------------------------------------------------------
(* _check_shape. *)

NoErr == <<>>

\* Mutant of _check_shape: only the second dimension is compared.
_check_shape_cols_only(l, r) ==
    IF l.shape[2] # r.shape[2]
    THEN <<"ValueError", "incompatible matrix shapes", l.shape, r.shape>>
    ELSE <<>>

\* The exception _check_shape raises, or NoErr.
_check_shape(l, r) ==
    IF l.shape[1] # r.shape[1] \/ l.shape[2] # r.shape[2]
    THEN <<"ValueError", "incompatible matrix shapes", l.shape, r.shape>>
    ELSE NoErr

Raise(e) ==
    /\ err' = e
    /\ pc' = "raised"
    /\ UNCHANGED <<entry, heap, left, right, scale, settings, tol, acc, loc,
                   out, ret, log, rowlog, aux>>

----------------------------------------------------------------------------
(* add_csr and sub_csr. *)

L == heap[left]
R == heap[right]

\* sub_csr: return add_csr(left, right, -1).
sub_csr ==
    /\ pc = "sub_csr"
    /\ scale' = -1
    /\ pc' = "add_csr"
    /\ UNCHANGED <<entry, heap, left, right, settings, tol, acc, loc, out,
                   ret, err, log, rowlog, aux>>

add_csr_raise ==
    /\ pc = "add_csr"
    /\ _check_shape(L, R) # NoErr
    /\ Raise(_check_shape(L, R))

\* The condition of the first fast path: return left.copy().
FastLeft(l, r, sc) == csr_nnz(r) = 0 \/ sc = 0

\* The condition of the second fast path, once the first did not apply.
FastRight(l, r, sc) == csr_nnz(l) = 0

\* Mutant of ScaledCopy: the fast path returns right.copy() unscaled.
ScaledCopy_unscaled(r, sc) == copy(r)

\* right.copy() with out.data[i] *= scale for i < right_nnz unless scale is 1.
ScaledCopy(r, sc) ==
    [copy(r) EXCEPT !.data = [i \in DOMAIN @ |->
                                IF sc # 1 /\ i < csr_nnz(r)
                                THEN @[i] * sc ELSE @[i]]]

add_csr_fast_left ==
    /\ pc = "add_csr"
    /\ _check_shape(L, R) = NoErr
    /\ FastLeft(L, R, scale)
    /\ heap' = heap @@ (3 :> copy(L))
    /\ ret' = 3
    /\ pc' = "done"
    /\ aux' = [aux EXCEPT !.path = "fast_left"]
    /\ UNCHANGED <<entry, left, right, scale, settings, tol, acc, loc, out,
                   err, log, rowlog>>

add_csr_fast_right ==
    /\ pc = "add_csr"
    /\ _check_shape(L, R) = NoErr
    /\ ~FastLeft(L, R, scale)
    /\ FastRight(L, R, scale)
    /\ heap' = heap @@ (3 :> ScaledCopy(R, scale))
    /\ out' = 3
    /\ ret' = 3
    /\ pc' = "done"
    /\ aux' = [aux EXCEPT !.path = "fast_right"]
    /\ UNCHANGED <<entry, left, right, scale, settings, tol, acc, loc, err,
                   log, rowlog>>

\* Which merge kernel the main path runs.
KernelFor(sc) == IF sc = 1 THEN "_add_csr" ELSE "_add_csr_scale"

\* Mutant of worst_nnz: the capacity counts left's entries only.
worst_nnz_left(l, r) == csr_nnz(l)

\* The capacity the main path allocates for out.
worst_nnz(l, r) == csr_nnz(l) + csr_nnz(r)

add_csr_main ==
    /\ pc = "add_csr"
    /\ _check_shape(L, R) = NoErr
    /\ ~FastLeft(L, R, scale)
    /\ ~FastRight(L, R, scale)
    /\ heap' = heap @@ (3 :> csr_empty(L.shape[1], L.shape[2], worst_nnz(L, R)))
    /\ out' = 3
    /\ acc' = acc_alloc(L.shape[2])
    /\ loc' = [loc EXCEPT !.variant = KernelFor(scale)]
    /\ log' = Append(log, <<"alloc">>)
    /\ aux' = [aux EXCEPT !.path = "main"]
    /\ pc' = "kernel"
    /\ UNCHANGED <<entry, left, right, scale, settings, tol, ret, err, rowlog>>

----------------------------------------------------------------------------
(* The merge kernels _add_csr and _add_csr_scale (a = left, b = right,      *)
(* c = out).                                                                *)

A == heap[left]
B == heap[right]
C == heap[out]

\* The values `tol` may hold when the kernel hands it to acc_gather: it is
\* assigned only under `if settings.core['auto_tidyup']`.
TolValues(st) ==
    IF st.auto_tidyup THEN {st.auto_tidyup_atol} ELSE UninitDouble

\* The column of the entry at ptr, or the sentinel once the row is exhausted.
NextCol(col_index, ptr, ptr_max, ncols) ==
    IF ptr < ptr_max THEN Rd(col_index, ptr) ELSE ncols + 1

\* The condition of the merge loop.
MergeMore(l) == l.ptr_a < l.ptr_a_max \/ l.ptr_b < l.ptr_b_max

\* Mutant of MergePickA: the comparison is inverted.
MergePickA_gt(col_a, col_b) == col_a > col_b

\* Whether the loop body takes a's entry (else b's).
MergePickA(col_a, col_b) == col_a < col_b

\* Mutant of ScatterValB: the scaled kernel forgets the scale.
ScatterValB_unscaled(variant, sc, v) == v

\* The value scattered for b's entry.
ScatterValB(variant, sc, v) == IF variant = "_add_csr" THEN v ELSE sc * v

\* The locals after the head of the row loop: both pointers start where the
\* previous row ended and are bounded by row_index[row + 1].
RowBegin(a, b, l) ==
    LET pa  == l.ptr_a_max
        pam == a.row_index[l.row + 1]
        pb  == l.ptr_b_max
        pbm == b.row_index[l.row + 1]
    IN  [l EXCEPT !.ptr_a = pa, !.ptr_a_max = pam,
                  !.ptr_b = pb, !.ptr_b_max = pbm,
                  !.col_a = NextCol(a.col_index, pa, pam, a.shape[2]),
                  !.col_b = NextCol(b.col_index, pb, pbm, a.shape[2])]

\* The locals after the loop body took a's entry.
AdvanceA(a, l) ==
    [l EXCEPT !.ptr_a = @ + 1,
              !.col_a = NextCol(a.col_index, l.ptr_a + 1, l.ptr_a_max,
                                a.shape[2])]

\* The locals after the loop body took b's entry.
AdvanceB(a, b, l) ==
    [l EXCEPT !.ptr_b = @ + 1,
              !.col_b = NextCol(b.col_index, l.ptr_b + 1, l.ptr_b_max,
                                a.shape[2])]

\* Mutant of NnzAfterGather: the count is assigned, not accumulated.
NnzAfterGather_assign(nnz, n) == n

\* nnz += acc_gather(...)
NnzAfterGather(nnz, n) == nnz + n

\* The slot of c.row_index written at the end of row `row`.
RowIndexSlot(row) == row + 1

kernel_begin ==
    /\ pc = "kernel"
    /\ tol' \in TolValues(settings)
    /\ heap' = [heap EXCEPT ![out].row_index[0] = 0]
    /\ loc' = [loc EXCEPT !.nnz = 0, !.ptr_a_max = 0, !.ptr_b_max = 0,
                          !.row = 0]
    /\ pc' = "row"
    /\ UNCHANGED <<entry, left, right, scale, settings, acc, out, ret, err,
                   log, rowlog, aux>>

row_begin ==
    /\ pc = "row"
    /\ loc.row < A.shape[1]
    /\ loc' = RowBegin(A, B, loc)
    /\ rowlog' = <<>>
    /\ pc' = "merge"
    /\ UNCHANGED <<entry, heap, left, right, scale, settings, tol, acc, out,
                   ret, err, log, aux>>

merge_scatter_a ==
    /\ pc = "merge"
    /\ MergeMore(loc)
    /\ MergePickA(loc.col_a, loc.col_b)
    /\ acc' = acc_scatter(acc, Rd(A.data, loc.ptr_a), loc.col_a)
    /\ loc' = AdvanceA(A, loc)
    /\ rowlog' = Append(rowlog, [side |-> "a", ptr |-> loc.ptr_a,
                                 col |-> loc.col_a,
                                 val |-> Rd(A.data, loc.ptr_a)])
    /\ log' = Append(log, <<"scatter", loc.row>>)
    /\ aux' = [aux EXCEPT !.oob = @ \/ loc.ptr_a \notin DOMAIN A.data
                                    \/ loc.col_a \notin DOMAIN acc.values]
    /\ UNCHANGED <<entry, pc, heap, left, right, scale, settings, tol, out,
                   ret, err>>

merge_scatter_b ==
    /\ pc = "merge"
    /\ MergeMore(loc)
    /\ ~MergePickA(loc.col_a, loc.col_b)
    /\ LET v == ScatterValB(loc.variant, scale, Rd(B.data, loc.ptr_b))
       IN  /\ acc' = acc_scatter(acc, v, loc.col_b)
           /\ rowlog' = Append(rowlog, [side |-> "b", ptr |-> loc.ptr_b,
                                        col |-> loc.col_b, val |-> v])
    /\ loc' = AdvanceB(A, B, loc)
    /\ log' = Append(log, <<"scatter", loc.row>>)
    /\ aux' = [aux EXCEPT !.oob = @ \/ loc.ptr_b \notin DOMAIN B.data
                                    \/ loc.col_b \notin DOMAIN acc.values]
    /\ UNCHANGED <<entry, pc, heap, left, right, scale, settings, tol, out,
                   ret, err>>

\* c with the gathered pairs g written at offset nnz of data and col_index
\* (a write past the allocation is dropped here and recorded as an overrun).
GatherInto(c, nnz, g) ==
    [c EXCEPT
       !.data = [i \in DOMAIN @ |->
                   IF i >= nnz /\ i < nnz + Len(g) THEN g[i - nnz + 1][2]
                   ELSE @[i]],
       !.col_index = [i \in DOMAIN @ |->
                        IF i >= nnz /\ i < nnz + Len(g) THEN g[i - nnz + 1][1]
                        ELSE @[i]]]

gather ==
    /\ pc = "merge"
    /\ ~MergeMore(loc)
    /\ LET g == acc_gather(acc, tol)
       IN  /\ heap' = [heap EXCEPT ![out] = GatherInto(@, loc.nnz, g)]
           /\ loc' = [loc EXCEPT !.nnz = NnzAfterGather(@, Len(g))]
           /\ aux' = [aux EXCEPT
                        !.before = loc.nnz,
                        !.touched = Len(acc.nz_inds),
                        !.written = Len(g),
                        !.dropped = @ + Len(acc.nz_inds) - Len(g),
                        !.overrun = @ \/ loc.nnz + Len(g) > C.cap]
    /\ log' = Append(log, <<"gather", loc.row>>)
    /\ pc' = "reset"
    /\ UNCHANGED <<entry, left, right, scale, settings, tol, acc, out, ret,
                   err, rowlog>>

reset ==
    /\ pc = "reset"
    /\ acc' = acc_reset(acc)
    /\ log' = Append(log, <<"reset", loc.row>>)
    /\ pc' = "row_index"
    /\ UNCHANGED <<entry, heap, left, right, scale, settings, tol, loc, out,
                   ret, err, rowlog, aux>>

write_row_index ==
    /\ pc = "row_index"
    /\ heap' = [heap EXCEPT ![out].row_index[RowIndexSlot(loc.row)] = loc.nnz]
    /\ loc' = [loc EXCEPT !.row = @ + 1]
    /\ log' = Append(log, <<"row_index", RowIndexSlot(loc.row)>>)
    /\ pc' = "row"
    /\ UNCHANGED <<entry, left, right, scale, settings, tol, acc, out, ret,
                   err, rowlog, aux>>

kernel_return ==
    /\ pc = "row"
    /\ ~(loc.row < A.shape[1])
    /\ pc' = "free"
    /\ UNCHANGED <<entry, heap, left, right, scale, settings, tol, acc, loc,
                   out, ret, err, log, rowlog, aux>>

\* Mutant of add_csr_return: the accumulator is never freed.
add_csr_return_leak ==
    /\ pc = "free"
    /\ ret' = out
    /\ pc' = "done"
    /\ UNCHANGED <<entry, heap, left, right, scale, settings, tol, acc, loc,
                   out, err, log, rowlog, aux>>

add_csr_return ==
    /\ pc = "free"
    /\ acc' = acc_free(acc)
    /\ log' = Append(log, <<"free">>)
    /\ ret' = out
    /\ pc' = "done"
    /\ UNCHANGED <<entry, heap, left, right, scale, settings, tol, loc, out,
                   err, rowlog, aux>>

\* The accumulator after the merge loop of one row, started with locals l.
RECURSIVE MergeRow(_, _, _, _, _, _)
MergeRow(a, b, variant, sc, l, ac) ==
    IF ~MergeMore(l) THEN ac
    ELSE IF MergePickA(l.col_a, l.col_b)
    THEN MergeRow(a, b, variant, sc, AdvanceA(a, l),
                  acc_scatter(ac, Rd(a.data, l.ptr_a), l.col_a))
    ELSE MergeRow(a, b, variant, sc, AdvanceB(a, b, l),
                  acc_scatter(ac, ScatterValB(variant, sc, Rd(b.data, l.ptr_b)),
                              l.col_b))

\* c after the row loop ran from row l.row to the last row.
RECURSIVE KernelRows(_, _, _, _, _, _, _)
KernelRows(a, b, variant, sc, t, l, c) ==
    IF ~(l.row < a.shape[1]) THEN c
    ELSE LET l1  == RowBegin(a, b, l)
             g   == acc_gather(MergeRow(a, b, variant, sc, l1,
                                        acc_alloc(a.shape[2])), t)
             nnz == NnzAfterGather(l.nnz, Len(g))
         IN  KernelRows(a, b, variant, sc, t,
                        [l1 EXCEPT !.nnz = nnz, !.row = @ + 1],
                        [GatherInto(c, l.nnz, g) EXCEPT
                            !.row_index[RowIndexSlot(l.row)] = nnz])

\* What the main path of add_csr(a, b, sc) returns when the kernel hands
\* tolerance t to acc_gather.
KernelResult(a, b, sc, t) ==
    KernelRows(a, b, KernelFor(sc), sc, t, NoLoc,
               [csr_empty(a.shape[1], a.shape[2], worst_nnz(a, b)) EXCEPT
                   !.row_index[0] = 0])

NextCsr ==
    \/ sub_csr
    \/ add_csr_raise
    \/ add_csr_fast_left
    \/ add_csr_fast_right
    \/ add_csr_main
    \/ kernel_begin
    \/ row_begin
    \/ merge_scatter_a
    \/ merge_scatter_b
    \/ gather
    \/ reset
    \/ write_row_index
    \/ kernel_return
    \/ add_csr_return

----------------------------------------------------------------------------
(* add_dense, sub_dense and iadd_dense.                                     *)

\* The <<offset in x, offset in y>> pairs one zaxpy call touches.
ZaxpyAccess(n, xoff, incx, yoff, incy) ==
    {<<xoff + k * incx, yoff + k * incy>> : k \in 0 .. n - 1}

\* blas.zaxpy(n, alpha, x + xoff, incx, y + yoff, incy): the buffer y after
\* y[yoff + k*incy] += alpha * x[xoff + k*incx] for k < n.
zaxpy(n, alpha, x, xoff, incx, y, yoff, incy) ==
    [j \in DOMAIN y |->
        LET ks == {k \in 0 .. n - 1 : yoff + k * incy = j}
        IN  IF ks = {} THEN y[j]
            ELSE y[j] + alpha * Rd(x, xoff + (CHOOSE k \in ks : TRUE) * incx)]

\* Whether a zaxpy call stays inside both buffers.
ZaxpyInside(n, x, xoff, incx, y, yoff, incy) ==
    \A p \in ZaxpyAccess(n, xoff, incx, yoff, incy) :
        p[1] \in DOMAIN x /\ p[2] \in DOMAIN y

\* Whether the two operands share a layout: not (left.fortran ^ right.fortran).
SameOrder(l, r) == ~(l.fortran # r.fortran)

\* Mutant of Dims: the two cases are exchanged.
Dims_swapped(l) ==
    IF l.fortran THEN <<l.shape[2], l.shape[1]>>
    ELSE <<l.shape[1], l.shape[2]>>

\* dim1, dim2 = (nrows, ncols) if left.fortran else (ncols, nrows)
Dims(l) ==
    IF l.fortran THEN <<l.shape[1], l.shape[2]>>
    ELSE <<l.shape[2], l.shape[1]>>

\* The offset in right.data of the strided update number idx.
RightOffset(idx, d1, d2) == idx

\* The offset in out.data (left.data for iadd_dense) of update number idx.
OutOffset(idx, d1, d2) == idx * d1

\* Mutant of RightStride: the stride is the other dimension.
RightStride_dim1(d1, d2) == d1

\* The stride on the right side of the strided update.
RightStride(d1, d2) == d2

sub_dense ==
    /\ pc = "sub_dense"
    /\ scale' = -1
    /\ pc' = "add_dense"
    /\ UNCHANGED <<entry, heap, left, right, settings, tol, acc, loc, out,
                   ret, err, log, rowlog, aux>>

add_dense_raise ==
    /\ pc = "add_dense"
    /\ _check_shape(L, R) # NoErr
    /\ Raise(_check_shape(L, R))

\* _add_dense_eq_order: out = left.copy(), then one zaxpy over the buffer.
add_dense_eq_order ==
    /\ pc = "add_dense"
    /\ _check_shape(L, R) = NoErr
    /\ SameOrder(L, R)
    /\ LET size == L.shape[1] * L.shape[2]
       IN  /\ heap' = heap @@
                 (3 :> [copy(L) EXCEPT
                          !.data = zaxpy(size, scale, R.data, 0, 1, @, 0, 1)])
           /\ loc' = [loc EXCEPT !.size = size]
           /\ aux' = [aux EXCEPT
                        !.path = "eq",
                        !.access = ZaxpyAccess(size, 0, 1, 0, 1),
                        !.oob = @ \/ ~ZaxpyInside(size, R.data, 0, 1,
                                                  L.data, 0, 1)]
    /\ out' = 3
    /\ ret' = 3
    /\ pc' = "done"
    /\ UNCHANGED <<entry, left, right, scale, settings, tol, acc, err, log,
                   rowlog>>

add_dense_mixed ==
    /\ pc = "add_dense"
    /\ _check_shape(L, R) = NoErr
    /\ ~SameOrder(L, R)
    /\ heap' = heap @@ (3 :> copy(L))
    /\ out' = 3
    /\ loc' = [loc EXCEPT !.dim1 = Dims(L)[1], !.dim2 = Dims(L)[2], !.idx = 0]
    /\ aux' = [aux EXCEPT !.path = "mixed"]
    /\ pc' = "add_dense_loop"
    /\ UNCHANGED <<entry, left, right, scale, settings, tol, acc, ret, err,
                   log, rowlog>>

\* One strided update of the object `dst` (out, or left for iadd_dense).
StridedUpdate(dst) ==
    LET xo == RightOffset(loc.idx, loc.dim1, loc.dim2)
        yo == OutOffset(loc.idx, loc.dim1, loc.dim2)
        ix == RightStride(loc.dim1, loc.dim2)
    IN  /\ heap' = [heap EXCEPT ![dst].data =
                      zaxpy(loc.dim1, scale, R.data, xo, ix, @, yo, 1)]
        /\ aux' = [aux EXCEPT
                     !.access = ZaxpyAccess(loc.dim1, xo, ix, yo, 1),
                     !.oob = @ \/ ~ZaxpyInside(loc.dim1, R.data, xo, ix,
                                               heap[dst].data, yo, 1)]
        /\ loc' = [loc EXCEPT !.idx = @ + 1]

add_dense_step ==
    /\ pc = "add_dense_loop"
    /\ loc.idx < loc.dim2
    /\ StridedUpdate(out)
    /\ UNCHANGED <<entry, pc, left, right, scale, settings, tol, acc, out,
                   ret, err, log, rowlog>>

add_dense_return ==
    /\ pc = "add_dense_loop"
    /\ ~(loc.idx < loc.dim2)
    /\ ret' = out
    /\ pc' = "done"
    /\ UNCHANGED <<entry, heap, left, right, scale, settings, tol, acc, loc,
                   out, err, log, rowlog, aux>>

iadd_dense_raise ==
    /\ pc = "iadd_dense"
    /\ _check_shape(L, R) # NoErr
    /\ Raise(_check_shape(L, R))

iadd_dense_eq_order ==
    /\ pc = "iadd_dense"
    /\ _check_shape(L, R) = NoErr
    /\ SameOrder(L, R)
    /\ LET size == L.shape[1] * L.shape[2]
       IN  /\ heap' = [heap EXCEPT ![left].data =
                         zaxpy(size, scale, R.data, 0, 1, @, 0, 1)]
           /\ loc' = [loc EXCEPT !.size = size, !.dim1 = Dims(L)[1],
                                 !.dim2 = Dims(L)[2]]
           /\ aux' = [aux EXCEPT
                        !.path = "eq",
                        !.access = ZaxpyAccess(size, 0, 1, 0, 1),
                        !.oob = @ \/ ~ZaxpyInside(size, R.data, 0, 1,
                                                  L.data, 0, 1)]
    /\ ret' = left
    /\ pc' = "done"
    /\ UNCHANGED <<entry, left, right, scale, settings, tol, acc, out, err,
                   log, rowlog>>

iadd_dense_mixed ==
    /\ pc = "iadd_dense"
    /\ _check_shape(L, R) = NoErr
    /\ ~SameOrder(L, R)
    /\ loc' = [loc EXCEPT !.size = L.shape[1] * L.shape[2],
                          !.dim1 = Dims(L)[1], !.dim2 = Dims(L)[2], !.idx = 0]
    /\ aux' = [aux EXCEPT !.path = "mixed"]
    /\ pc' = "iadd_dense_loop"
    /\ UNCHANGED <<entry, heap, left, right, scale, settings, tol, acc, out,
                   ret, err, log, rowlog>>

iadd_dense_step ==
    /\ pc = "iadd_dense_loop"
    /\ loc.idx < loc.dim2
    /\ StridedUpdate(left)
    /\ UNCHANGED <<entry, pc, left, right, scale, settings, tol, acc, out,
                   ret, err, log, rowlog>>

iadd_dense_return ==
    /\ pc = "iadd_dense_loop"
    /\ ~(loc.idx < loc.dim2)
    /\ ret' = left
    /\ pc' = "done"
    /\ UNCHANGED <<entry, heap, left, right, scale, settings, tol, acc, loc,
                   out, err, log, rowlog, aux>>

NextDense ==
    \/ sub_dense
    \/ add_dense_raise
    \/ add_dense_eq_order
    \/ add_dense_mixed
    \/ add_dense_step
    \/ add_dense_return
    \/ iadd_dense_raise
    \/ iadd_dense_eq_order
    \/ iadd_dense_mixed
    \/ iadd_dense_step
    \/ iadd_dense_return

Next == NextCsr \/ NextDense

Spec == Init /\ [][Next]_vars

----------------------------------------------------------------------------
(* Vocabulary of the properties. *)

\* The operands as they were when the call was made.
A0 == aux.left0
B0 == aux.right0

CsrDone == entry \in CsrEntries /\ pc = "done"

\* The tolerance the documentation gives the kernels: the configured
\* threshold when tidy-up is enabled, zero when it is disabled.
DocumentedTol(st) == IF st.auto_tidyup THEN st.auto_tidyup_atol ELSE 0

\* The exact value of left + scale*right at position p.
ExactSum(p) == CsrToDense(A0)[p] + scale * CsrToDense(B0)[p]

Positions(m) == (0 .. m.shape[1] - 1) \X (0 .. m.shape[2] - 1)

\* The step-by-step kernel and its closed form agree on every call.
KernelAgrees ==
    (CsrDone /\ aux.path = "main") =>
        heap[ret] = KernelResult(A0, B0, scale, tol)

----------------------------------------------------------------------------
(* C1 *)

\* C1 as stated, on the calls made with tidy-up enabled (the tolerance is
\* then the configured threshold): the dense expansion of the matrix add_csr
\* returns equals dense(left) + scale*dense(right) at every position, for
\* every scale (sub_csr being the call with scale -1).
C1_DenseSumExact ==
    (CsrDone /\ settings.auto_tidyup) =>
        /\ entry = "sub_csr" => scale = -1
        /\ \A p \in Positions(A0) : CsrToDense(heap[ret])[p] = ExactSum(p)

\* C1 amended: on the fast paths the dense expansion equals
\* dense(left) + scale*dense(right) exactly; on the main path it equals that
\* sum wherever the sum's magnitude exceeds the tolerance the kernel handed
\* to the gather, and is zero wherever it does not.
C1_DenseSumUpToTol ==
    CsrDone =>
        /\ entry = "sub_csr" => scale = -1
        /\ scale = 0 => CsrToDense(heap[ret]) = CsrToDense(A0)
        /\ \A p \in Positions(A0) :
              CsrToDense(heap[ret])[p] =
                 IF aux.path = "main" /\ Abs(ExactSum(p)) <= tol
                 THEN 0 ELSE ExactSum(p)

\* A main-path call with a scaled right operand in which the gather both
\* dropped an entry and kept one.
C1_Witness ==
    /\ CsrDone
    /\ aux.path = "main"
    /\ scale = 2
    /\ aux.dropped > 0
    /\ \E p \in Positions(A0) :
          CsrToDense(heap[ret])[p] # 0 /\ CsrToDense(B0)[p] # 0

----------------------------------------------------------------------------
(* C2 *)

\* Whether m is a valid CSR matrix.
ValidCsr(m) ==
    /\ m.row_index[0] = 0
    /\ \A r \in 0 .. m.shape[1] - 1 : m.row_index[r] <= m.row_index[r + 1]
    /\ csr_nnz(m) <= m.cap
    /\ \A r \in 0 .. m.shape[1] - 1 :
          \A i \in m.row_index[r] .. m.row_index[r + 1] - 1 :
             /\ i \in DOMAIN m.col_index
             /\ m.col_index[i] \in 0 .. m.shape[2] - 1
             /\ i + 1 < m.row_index[r + 1] =>
                   /\ i + 1 \in DOMAIN m.col_index
                   /\ m.col_index[i] < m.col_index[i + 1]

\* C2: the matrix add_csr returns is a valid CSR: row_index[0] = 0,
\* row_index non-decreasing, row_index[rows] within the capacity, and every
\* row's columns strictly increasing inside [0, cols).
C2_ResultValidCsr ==
    CsrDone =>
        /\ heap[ret].shape = A0.shape
        /\ DOMAIN heap[ret].row_index = 0 .. A0.shape[1]
        /\ ValidCsr(heap[ret])

\* A main-path result with two rows that both hold entries, fewer than the
\* capacity in total.
C2_Witness ==
    /\ CsrDone
    /\ aux.path = "main"
    /\ A0.shape = <<2, 2>>
    /\ heap[ret].row_index[1] > 0
    /\ heap[ret].row_index[2] > heap[ret].row_index[1]
    /\ csr_nnz(heap[ret]) < heap[ret].cap

----------------------------------------------------------------------------
(* C3 *)

FastPath == CsrDone /\ aux.path \in {"fast_left", "fast_right"}

\* C3 as stated: a call that returns through a fast path returns the stored
\* entries the merge kernel would produce for the same operands, scale and
\* tidy-up setting.
C3_FastEqualsKernel ==
    FastPath =>
        Content(heap[ret]) =
           Content(KernelResult(A0, B0, scale, DocumentedTol(settings)))

\* The tolerances the comparison of C3 is made for.
CheckedTols == {0, 1, 2}

\* C3 amended: a fast path returns a new matrix holding exactly left's stored
\* entries (right empty or scale = 0), or right's with every value multiplied
\* by scale (left empty); it applies no tolerance filter, so for a tolerance
\* t >= 0 the merge kernel would produce the same stored entries exactly
\* when no returned value has magnitude at or below t.
C3_FastIsUnfilteredCopy ==
    FastPath =>
        /\ ret \notin {left, right}
        /\ heap[left] = A0 /\ heap[right] = B0
        /\ aux.path = "fast_left" =>
              /\ csr_nnz(B0) = 0 \/ scale = 0
              /\ Content(heap[ret]) = Content(A0)
        /\ aux.path = "fast_right" =>
              /\ csr_nnz(A0) = 0
              /\ Content(heap[ret]) =
                    [Content(B0) EXCEPT
                        !.data = [i \in DOMAIN @ |-> scale * B0.data[i]]]
        /\ \A t \in CheckedTols :
              (Content(heap[ret]) = Content(KernelResult(A0, B0, scale, t)))
                 <=> (\A e \in Stored(heap[ret]) : Abs(e[3]) > t)

\* The second fast path taken with a scale that is not 1 on a right operand
\* whose scaled values the configured threshold would drop.
C3_Witness ==
    /\ FastPath
    /\ aux.path = "fast_right"
    /\ scale = -1
    /\ csr_nnz(B0) = MaxNnz
    /\ settings.auto_tidyup /\ settings.auto_tidyup_atol = 1

----------------------------------------------------------------------------
(* C4 *)

KernelRunning == pc \in {"row", "merge", "reset", "row_index", "free"}

\* C4 as stated: the tolerance the kernel hands to every gather is the
\* configured threshold when tidy-up is enabled and zero when it is
\* disabled, and with tidy-up disabled the gather drops no touched column
\* whose accumulated value is non-zero.
C4_TolFromSetting ==
    /\ KernelRunning => tol = DocumentedTol(settings)
    /\ (pc = "merge" /\ ~MergeMore(loc) /\ ~settings.auto_tidyup) =>
          \A c \in DOMAIN acc.values :
             acc.values[c] # 0 =>
                \E i \in 1 .. Len(acc_gather(acc, tol)) :
                   acc_gather(acc, tol)[i][1] = c

----------------------------------------------------------------------------
(* C5 *)

DenseAddDone == entry \in {"add_dense", "sub_dense"} /\ pc = "done"

\* The logical element <<r, c>> stored at a buffer offset.
LogicalAt(shape, fortran, off) ==
    IF fortran THEN <<off % shape[1], off \div shape[1]>>
    ELSE <<off \div shape[2], off % shape[2]>>

\* The buffer of `dst` right after strided update number i of a mixed-layout
\* call: the accesses were right at i + k*dim2 and dst at i*dim1 + k for
\* k < dim1, all inside the rows*cols buffers, each pair on one logical
\* element.
StridedAccessOk(dst, i) ==
    /\ aux.access = {<<i + k * loc.dim2, i * loc.dim1 + k>> :
                       k \in 0 .. loc.dim1 - 1}
    /\ \A p \in aux.access :
          /\ p[1] \in 0 .. A0.shape[1] * A0.shape[2] - 1
          /\ p[2] \in 0 .. A0.shape[1] * A0.shape[2] - 1
          /\ LogicalAt(B0.shape, B0.fortran, p[1]) =
                LogicalAt(dst.shape, dst.fortran, p[2])
    /\ ~aux.oob

\* C5: every logical element (r, c) of what add_dense returns is
\* L[r,c] + scale*R[r,c], whatever the two layout flags; every strided update
\* of the mixed-layout path reads right at idx + k*dim2 and writes out at
\* idx*dim1 + k, inside the buffers and on the same logical element.
C5_AddDenseElementwise ==
    /\ DenseAddDone =>
          /\ entry = "sub_dense" => scale = -1
          /\ heap[ret].shape = A0.shape
          /\ DOMAIN heap[ret].data = DOMAIN A0.data
          /\ ~aux.oob
          /\ \A p \in Positions(A0) :
                DenseAt(heap[ret], p[1], p[2]) =
                   DenseAt(A0, p[1], p[2]) + scale * DenseAt(B0, p[1], p[2])
    /\ (pc = "add_dense_loop" /\ loc.idx > 0) =>
          StridedAccessOk(heap[out], loc.idx - 1)

\* A mixed-layout add_dense on a non-square shape, scaled, where an element
\* is non-zero on both sides.
C5_Witness ==
    /\ DenseAddDone
    /\ aux.path = "mixed"
    /\ A0.shape = <<2, 3>>
    /\ scale = 2
    /\ \E p \in Positions(A0) :
          DenseAt(A0, p[1], p[2]) # 0 /\ DenseAt(B0, p[1], p[2]) # 0

----------------------------------------------------------------------------
(* C6 *)

\* out.data after the strided updates idx .. dim2-1 of add_dense.
RECURSIVE MixedUpdates(_, _, _, _, _, _)
MixedUpdates(y, r, sc, d1, d2, idx) ==
    IF ~(idx < d2) THEN y
    ELSE MixedUpdates(zaxpy(d1, sc, r.data, RightOffset(idx, d1, d2),
                            RightStride(d1, d2), y, OutOffset(idx, d1, d2), 1),
                      r, sc, d1, d2, idx + 1)

\* The matrix add_dense(l, r, sc) returns.
AddDenseResult(l, r, sc) ==
    IF SameOrder(l, r)
    THEN [copy(l) EXCEPT !.data = zaxpy(l.shape[1] * l.shape[2], sc, r.data,
                                        0, 1, @, 0, 1)]
    ELSE [copy(l) EXCEPT !.data = MixedUpdates(@, r, sc, Dims(l)[1],
                                               Dims(l)[2], 0)]

IaddDone == entry = "iadd_dense" /\ pc = "done"

\* C6: iadd_dense leaves L holding the logical values add_dense would return
\* on the original L (L[r,c] + scale*R[r,c]), returns the object it was
\* handed, creates no matrix, and leaves R untouched when R is another
\* object.
C6_IaddMatchesAdd ==
    IaddDone =>
        /\ ret = left
        /\ DOMAIN heap = IF right = left THEN {1} ELSE {1, 2}
        /\ out = 0
        /\ right # left => heap[right] = B0
        /\ heap[left].fortran = A0.fortran /\ heap[left].shape = A0.shape
        /\ heap[left] = AddDenseResult(A0, B0, scale)
        /\ \A p \in Positions(A0) :
              DenseAt(heap[left], p[1], p[2]) =
                 DenseAt(A0, p[1], p[2]) + scale * DenseAt(B0, p[1], p[2])

\* A mixed-layout iadd_dense on a non-square shape that changed L.
C6_Witness ==
    /\ IaddDone
    /\ aux.path = "mixed"
    /\ A0.shape = <<3, 2>>
    /\ right # left
    /\ heap[left] # A0

----------------------------------------------------------------------------
(* C7 *)

ShapesDiffer ==
    A0.shape[1] # B0.shape[1] \/ A0.shape[2] # B0.shape[2]

\* The positions of a call before its shape check.
BeforeCheck ==
    {"add_csr", "sub_csr", "add_dense", "sub_dense", "iadd_dense"}

NothingDone ==
    /\ heap = IF right = left THEN (1 :> A0) ELSE (1 :> A0) @@ (2 :> B0)
    /\ acc = NoAcc
    /\ out = 0
    /\ ret = 0
    /\ log = <<>>
    /\ aux.access = {}

\* C7: with shapes that differ in either dimension every entry point ends in
\* the shape-mismatch error carrying both shapes, having allocated, copied
\* and written nothing, both operands as they were; with equal shapes the
\* error is never raised.
C7_ShapeMismatch ==
    /\ ShapesDiffer =>
          /\ pc \in BeforeCheck \cup {"raised"}
          /\ NothingDone
          /\ pc = "raised" =>
                err = <<"ValueError", "incompatible matrix shapes",
                        A0.shape, B0.shape>>
          /\ pc # "raised" => ENABLED Next
    /\ ~ShapesDiffer => (pc # "raised" /\ err = NoErr)
    /\ pc \in BeforeCheck => NothingDone

\* iadd_dense raised on shapes that differ in the second dimension only.
C7_Witness ==
    /\ pc = "raised"
    /\ entry = "iadd_dense"
    /\ A0.shape[1] = B0.shape[1]
    /\ A0.shape[2] # B0.shape[2]

----------------------------------------------------------------------------
(* C8 *)

\* The scatters of one side in the row's history, in order.
SideOf(side) == SelectSeq(rowlog, LAMBDA e : e.side = side)

\* The scatters of side `side` so far are the entries of m's row from its
\* start offset up to (not including) ptr, one each, in order, with value
\* factor*data, and none at or beyond the row's end offset.
SideMerged(side, m, ptr, factor) ==
    LET q     == SideOf(side)
        first == m.row_index[loc.row]
        last  == m.row_index[loc.row + 1]
    IN  /\ Len(q) = ptr - first
        /\ ptr <= last
        /\ \A i \in 1 .. Len(q) :
              /\ q[i].ptr = first + i - 1
              /\ q[i].ptr < last
              /\ q[i].ptr \in DOMAIN m.data
              /\ q[i].col = m.col_index[q[i].ptr]
              /\ q[i].val = factor * m.data[q[i].ptr]

\* C8: in both kernels the scatters before a row's gather are an ordered
\* merge of the two input rows: every stored entry of a's and of b's row
\* once (b's value times scale), columns non-decreasing, nothing read at or
\* beyond the row's end offset, and the gather follows exactly when both
\* pointers stand at their row's end offset.
C8_OrderedMerge ==
    pc \in {"merge", "reset"} =>
        /\ SideMerged("a", A0, loc.ptr_a, 1)
        /\ SideMerged("b", B0, loc.ptr_b, scale)
        /\ \A i \in 1 .. Len(rowlog) - 1 : rowlog[i].col <= rowlog[i + 1].col
        /\ ~aux.oob
        /\ (loc.ptr_a = A0.row_index[loc.row + 1]
              /\ loc.ptr_b = B0.row_index[loc.row + 1])
             <=> (pc = "reset" \/ ~MergeMore(loc))

\* The second row of a scaled merge gathered after four scatters, two of
\* them on one column.
C8_Witness ==
    /\ pc = "reset"
    /\ loc.row = 1
    /\ loc.variant = "_add_csr_scale"
    /\ Len(rowlog) = 4
    /\ rowlog[1].col = rowlog[2].col

----------------------------------------------------------------------------
(* C9 *)

\* The number of stored entries of row r of m.
RowLen(m, r) == m.row_index[r + 1] - m.row_index[r]

\* The accumulator history of rows r .. rows-1 of a main-path call.
RECURSIVE RowsHistory(_, _, _)
RowsHistory(a, b, r) ==
    IF r >= a.shape[1] THEN <<>>
    ELSE [i \in 1 .. RowLen(a, r) + RowLen(b, r) |-> <<"scatter", r>>]
         \o <<<<"gather", r>>, <<"reset", r>>, <<"row_index", r + 1>>>>
         \o RowsHistory(a, b, r + 1)

\* alloc, then row by row (scatters, one gather, one reset, the write of
\* row_index[r+1]), then free.
MainHistory(a, b) == <<<<"alloc">>>> \o RowsHistory(a, b, 0) \o <<<<"free">>>>

IsPrefix(s, t) ==
    /\ Len(s) <= Len(t)
    /\ \A i \in 1 .. Len(s) : s[i] = t[i]

\* C9: a main-path call of add_csr allocates the accumulator, then for each
\* row in increasing order scatters, gathers once and resets once, writing
\* row_index[r+1] after row r's gather, then frees once before it returns;
\* nothing is done to the accumulator after the free; a call through a fast
\* path or into the shape error allocates no accumulator.
C9_AccumulatorLifecycle ==
    /\ aux.path = "main" =>
          /\ IsPrefix(log, MainHistory(A0, B0))
          /\ pc = "done" => log = MainHistory(A0, B0)
          /\ acc.state = IF pc = "done" THEN "freed" ELSE "live"
          /\ pc \in {"merge", "reset", "row_index"} =>
                heap[out].row_index[loc.row + 1] = Uninit
    /\ aux.path # "main" => (log = <<>> /\ acc = NoAcc)

\* A finished main-path call on two rows that scattered in both.
C9_Witness ==
    /\ CsrDone
    /\ aux.path = "main"
    /\ A0.shape[1] = 2
    /\ \E i \in 1 .. Len(log) : log[i] = <<"scatter", 0>>
    /\ \E i \in 1 .. Len(log) : log[i] = <<"scatter", 1>>

----------------------------------------------------------------------------
(* C10 *)

\* Whether left and right store an entry at one position.
SharePosition ==
    \E e \in Stored(A0), f \in Stored(B0) : e[1] = f[1] /\ e[2] = f[2]

\* C10: on the main path the output buffer of capacity nnz(left)+nnz(right)
\* is never overrun: at each gather the write offset plus the columns
\* touched in the row is within the capacity, the running nnz never
\* decreases, and the final row_index[rows] is at most the capacity, equal
\* to it exactly when left and right share no position and the tolerance
\* filter dropped nothing.
C10_CapacitySuffices ==
    aux.path = "main" =>
        /\ heap[out].cap = csr_nnz(A0) + csr_nnz(B0)
        /\ DOMAIN heap[out].data = 0 .. heap[out].cap - 1
        /\ DOMAIN heap[out].col_index = 0 .. heap[out].cap - 1
        /\ ~aux.overrun
        /\ (pc = "merge" /\ ~MergeMore(loc)) =>
              loc.nnz + Len(acc.nz_inds) <= heap[out].cap
        /\ pc = "reset" =>
              /\ aux.before + aux.touched <= heap[out].cap
              /\ loc.nnz >= aux.before
              /\ loc.nnz = aux.before + aux.written
        /\ pc = "done" =>
              /\ csr_nnz(heap[ret]) <= heap[ret].cap
              /\ (csr_nnz(heap[ret]) = heap[ret].cap)
                    <=> (~SharePosition /\ aux.dropped = 0)

\* A finished main-path call that filled the whole capacity.
C10_Witness ==
    /\ CsrDone
    /\ aux.path = "main"
    /\ csr_nnz(heap[ret]) = heap[ret].cap
    /\ heap[ret].cap = 2 * MaxNnz

====
